---- MODULE Spec2Model ----
(***************************************************************************)
(* Model of the no-unsafe-any rule                                         *)
(* (packages/eslint-plugin/src/rules/no-unsafe-any.ts).                    *)
(*                                                                         *)
(* A program is a syntax tree of uniform node records.  Every node carries *)
(* the type the checker resolves at that node (field ty), so the type      *)
(* oracle is part of the input.  A node is identified by its path from the *)
(* root: the sequence of child indices, children first and the type        *)
(* annotation last.  One traversal fires, node by node, every handler of   *)
(* the rule whose selector matches; a handler appends its reports to the   *)
(* diagnostic sequence.                                                    *)
(***************************************************************************)
EXTENDS Naturals, Sequences, FiniteSets

VARIABLES program, userOption, worklist, pc, diagnostics, firedAt, status

vars == <<program, userOption, worklist, pc, diagnostics, firedAt, status>>

(***************************************************************************)
(* Bounds of the enumerated programs.                                      *)
(***************************************************************************)
MaxArgs == 2
MaxElems == 2
MaxCases == 2
MaxBody == 2

(***************************************************************************)
(* Syntax trees.                                                           *)
(***************************************************************************)
Node(type, kind, name, ty, typeAnnotation, children) ==
    [type |-> type, kind |-> kind, name |-> name, ty |-> ty,
     typeAnnotation |-> typeAnnotation, children |-> children]

\* A JavaScript null in a child position (an elided array-pattern element).
Null == Node("null", "", "", "Concrete", <<>>, <<>>)

\* The children a traversal descends into, in visitor-key order.
Kids(n) == n.children \o n.typeAnnotation

RECURSIVE NodeAt(_, _)
NodeAt(n, p) == IF p = <<>> THEN n ELSE NodeAt(Kids(n)[Head(p)], Tail(p))

ParentPath(p) == SubSeq(p, 1, Len(p) - 1)

IsPrefix(p, q) == Len(p) <= Len(q) /\ SubSeq(q, 1, Len(p)) = p

\* p comes before q in a pre-order walk (an ancestor before its descendants,
\* an earlier sibling's subtree before a later sibling's).
RECURSIVE PreOrderLeq(_, _)
PreOrderLeq(p, q) ==
    IF p = <<>> THEN TRUE
    ELSE IF q = <<>> THEN FALSE
    ELSE IF Head(p) # Head(q) THEN Head(p) < Head(q)
    ELSE PreOrderLeq(Tail(p), Tail(q))

RECURSIVE PathsFrom(_, _)
PathsFrom(n, p) ==
    {p} \cup UNION { PathsFrom(Kids(n)[i], Append(p, i)) :
                       i \in {j \in 1..Len(Kids(n)) : Kids(n)[j].type # "null"} }

\* AST field accessors.
HasTypeAnnotation(n) == Len(n.typeAnnotation) > 0
WrittenType(n) == n.typeAnnotation[1].children[1]
HasInit(d) == Len(d.children) = 2
IdOf(d) == d.children[1]
InitOf(d) == d.children[2]


(***************************************************************************)
(* Type oracle.  getTypeAtLocation(node) is the ty field of the node; a    *)
(* descriptor is "Concrete", "ConcreteArray", "Dynamic" (the any flag is   *)
(* set) or "DynamicArray" (an array reference whose type argument is any). *)
(***************************************************************************)
TypeDescriptors == {"Concrete", "ConcreteArray", "Dynamic", "DynamicArray"}

isAnyType(n) == n.ty = "Dynamic"

isAnyArrayType(n) == n.ty = "DynamicArray"

isAnyOrAnyArrayType(n) == isAnyType(n) \/ isAnyArrayType(n)

\* util.isNullLiteral, util.isUndefinedIdentifier
isNullLiteral(n) == n.type = "Literal" /\ n.name = "null"
isUndefinedIdentifier(n) == n.type = "Identifier" /\ n.name = "undefined"

(***************************************************************************)
(* Options.                                                                *)
(***************************************************************************)
defaultOptions == FALSE

allowVariableAnnotationFromAny ==
    IF userOption = "unset" THEN defaultOptions ELSE userOption = "true"

(***************************************************************************)
(* Reports.  data is the set of <<key, value>> pairs of the report.        *)
(***************************************************************************)
Report(p, messageId, data) == [node |-> p, messageId |-> messageId, data |-> data]

NoData == {}

Returns(reports) == [reports |-> reports, threw |-> FALSE]
Throws(reports) == [reports |-> reports, threw |-> TRUE]

\* Variant: the unknown-keyword exemption is missing.
reportWithoutUnknownExemption(root, d) ==
    LET node == NodeAt(root, d) IN
    IF ~HasTypeAnnotation(IdOf(node))
    THEN Returns(<<Report(d, "variableDeclarationInitialisedToAnyWithoutAnnotation", NoData)>>)
    ELSE IF allowVariableAnnotationFromAny
    THEN Returns(<<>>)
    ELSE Returns(<<Report(d, "variableDeclarationInitialisedToAnyWithAnnotation", NoData)>>)

reportVariableDeclarationInitialisedToAny(root, d) ==
    LET node == NodeAt(root, d) IN
    IF ~HasTypeAnnotation(IdOf(node))
    THEN Returns(<<Report(d, "variableDeclarationInitialisedToAnyWithoutAnnotation", NoData)>>)
    ELSE IF allowVariableAnnotationFromAny
    THEN Returns(<<>>)
    ELSE IF WrittenType(IdOf(node)).type = "TSUnknownKeyword"
    THEN Returns(<<>>)
    ELSE Returns(<<Report(d, "variableDeclarationInitialisedToAnyWithAnnotation", NoData)>>)

\* The paths checkDestructuringPattern recurses into from the pattern at p:
\* prop.value ?? prop for an object pattern, the elements for an array pattern.
PatternTargets(root, p) ==
    LET node == NodeAt(root, p) IN
    IF node.type = "ObjectPattern"
    THEN [i \in 1..Len(node.children) |->
            IF node.children[i].type = "Property" THEN p \o <<i, 2>> ELSE p \o <<i>>]
    ELSE [i \in 1..Len(node.children) |-> p \o <<i>>]

RECURSIVE checkDestructuringPattern(_, _)
RECURSIVE checkDestructuringEach(_, _, _, _)
checkDestructuringPattern(root, p) ==
    LET node == NodeAt(root, p) IN
    IF node.type = "null"
    THEN Throws(<<>>)              \* TypeError: reading .type of null
    ELSE IF node.type \in {"ObjectPattern", "ArrayPattern"}
    THEN checkDestructuringEach(root, PatternTargets(root, p), 1, <<>>)
    ELSE IF isAnyOrAnyArrayType(node)
    THEN Returns(<<Report(p, "patternVariableDeclarationInitialisedToAny", NoData)>>)
    ELSE Returns(<<>>)

checkDestructuringEach(root, targets, i, acc) ==
    IF i > Len(targets) THEN Returns(acc)
    ELSE LET r == checkDestructuringPattern(root, targets[i]) IN
         IF r.threw THEN Throws(acc \o r.reports)
         ELSE checkDestructuringEach(root, targets, i + 1, acc \o r.reports)

(***************************************************************************)
(* Handlers.  Each takes the tree and the path of the node its selector    *)
(* matched, and returns the reports it makes and whether it threw.         *)
(***************************************************************************)
TSTypeReference(root, p) ==
    LET node == NodeAt(root, p) IN
    IF ~isAnyType(node) THEN Returns(<<>>)
    ELSE Returns(<<Report(p, "typeReferenceResolvesToAny", {<<"typeName", node.name>>})>>)

\* Variant: the annotation is not looked at.
LetVarNoInitIgnoringAnnotation(root, p) ==
    Returns(<<Report(p, "letVariableWithNoInitialAndNoAnnotation",
                     {<<"kind", NodeAt(root, ParentPath(p)).kind>>})>>)

LetVarNoInit(root, p) ==
    LET node == NodeAt(root, p)
        parent == NodeAt(root, ParentPath(p)) IN
    IF HasTypeAnnotation(IdOf(node)) THEN Returns(<<>>)
    ELSE Returns(<<Report(p, "letVariableWithNoInitialAndNoAnnotation",
                          {<<"kind", parent.kind>>})>>)

LetVarInit(root, p) ==
    LET node == NodeAt(root, p)
        parent == NodeAt(root, ParentPath(p)) IN
    IF HasTypeAnnotation(IdOf(node)) THEN Returns(<<>>)
    ELSE IF isNullLiteral(InitOf(node)) \/ isUndefinedIdentifier(InitOf(node))
    THEN Returns(<<Report(p, "letVariableInitialisedToNullishAndNoAnnotation",
                          {<<"kind", parent.kind>>})>>)
    ELSE Returns(<<>>)

IdentifierId(root, p) ==
    LET parent == NodeAt(root, ParentPath(p)) IN
    IF ~HasInit(parent) THEN Returns(<<>>)
    ELSE IF ~isAnyType(InitOf(parent)) /\ ~isAnyArrayType(InitOf(parent)) THEN Returns(<<>>)
    ELSE reportVariableDeclarationInitialisedToAny(root, ParentPath(p))

\* Variant: the report is anchored at the array literal, not at the declarator.
EmptyArrayInitAnchoredAtLiteral(root, p) ==
    LET parent == NodeAt(root, ParentPath(p)) IN
    IF HasTypeAnnotation(IdOf(parent)) THEN Returns(<<>>)
    ELSE Returns(<<Report(p, "variableDeclarationInitialisedToAnyWithoutAnnotation", NoData)>>)

EmptyArrayInit(root, p) ==
    LET parent == NodeAt(root, ParentPath(p)) IN
    IF HasTypeAnnotation(IdOf(parent)) THEN Returns(<<>>)
    ELSE Returns(<<Report(ParentPath(p),
                          "variableDeclarationInitialisedToAnyWithoutAnnotation", NoData)>>)

ObjectPatternId(root, p) ==
    LET parent == NodeAt(root, ParentPath(p)) IN
    IF ~HasInit(parent) THEN Returns(<<>>)
    ELSE IF isAnyOrAnyArrayType(InitOf(parent))
    THEN reportVariableDeclarationInitialisedToAny(root, ParentPath(p))
    ELSE checkDestructuringPattern(root, p)

ArrayPatternId(root, p) ==
    LET parent == NodeAt(root, ParentPath(p)) IN
    IF ~HasInit(parent) THEN Returns(<<>>)
    ELSE IF isAnyOrAnyArrayType(InitOf(parent))
    THEN reportVariableDeclarationInitialisedToAny(root, ParentPath(p))
    ELSE checkDestructuringPattern(root, p)

ForOfDeclarator(root, p) ==
    IF isAnyOrAnyArrayType(NodeAt(root, p))
    THEN Returns(<<Report(p, "loopVariableInitialisedToAny", NoData)>>)
    ELSE Returns(<<>>)

ReturnStatementArgument(root, p) ==
    LET node == NodeAt(root, p) IN
    IF Len(node.children) = 0 THEN Throws(<<>>)        \* util.nullThrows
    ELSE IF isAnyOrAnyArrayType(node.children[1])
    THEN Returns(<<Report(p, "returnAny", NoData)>>)
    ELSE Returns(<<>>)

ArrowFunctionBody(root, p) ==
    IF isAnyOrAnyArrayType(NodeAt(root, p))
    THEN Returns(<<Report(p, "returnAny", NoData)>>)
    ELSE Returns(<<>>)

\* node.arguments: the children of a call after the callee.
RECURSIVE CallArgumentsFrom(_, _, _, _)
CallArgumentsFrom(root, p, i, acc) ==
    LET node == NodeAt(root, p) IN
    IF i > Len(node.children) THEN acc
    ELSE IF isAnyOrAnyArrayType(node.children[i])
    THEN CallArgumentsFrom(root, p, i + 1,
                           Append(acc, Report(Append(p, i), "passedArgumentIsAny", NoData)))
    ELSE CallArgumentsFrom(root, p, i + 1, acc)

\* Variant: the loop over the arguments is off by one.
CallExpressionSkippingFirst(root, p) == Returns(CallArgumentsFrom(root, p, 3, <<>>))

CallExpression(root, p) == Returns(CallArgumentsFrom(root, p, 2, <<>>))

AssignmentExpression(root, p) ==
    IF isAnyOrAnyArrayType(NodeAt(root, p).children[2])
    THEN Returns(<<Report(p, "assignmentValueIsAny", NoData)>>)
    ELSE Returns(<<>>)

UpdateExpression(root, p) ==
    IF isAnyType(NodeAt(root, p).children[1])
    THEN Returns(<<Report(p, "updateExpressionIsAny", NoData)>>)
    ELSE Returns(<<>>)

\* Variant: the table has no entry for do-while.
typeToTextWithoutDoWhile(type) ==
    CASE type = "IfStatement" -> "if"
      [] type = "WhileStatement" -> "while"
      [] type = "ConditionalExpression" -> "ternary"
      [] OTHER -> "undefined"

typeToText(type) ==
    CASE type = "IfStatement" -> "if"
      [] type = "WhileStatement" -> "while"
      [] type = "DoWhileStatement" -> "do while"
      [] type = "ConditionalExpression" -> "ternary"
      [] OTHER -> "undefined"

\* node.test: the first child, except for do-while whose body comes first.
TestIndex(node) == IF node.type = "DoWhileStatement" THEN 2 ELSE 1

BooleanTest(root, p) ==
    LET node == NodeAt(root, p) IN
    IF isAnyOrAnyArrayType(node.children[TestIndex(node)])
    THEN Returns(<<Report(Append(p, TestIndex(node)), "booleanTestIsAny",
                          {<<"kind", typeToText(node.type)>>})>>)
    ELSE Returns(<<>>)

SwitchStatement(root, p) ==
    IF isAnyOrAnyArrayType(NodeAt(root, p).children[1])
    THEN Returns(<<Report(Append(p, 1), "switchDiscriminantIsAny", NoData)>>)
    ELSE Returns(<<>>)

SwitchCaseTest(root, p) ==
    LET node == NodeAt(root, p) IN
    IF Len(node.children) = 0 THEN Throws(<<>>)        \* util.nullThrows
    ELSE IF isAnyOrAnyArrayType(node.children[1])
    THEN Returns(<<Report(p, "switchCaseTestIsAny", NoData)>>)
    ELSE Returns(<<>>)

(***************************************************************************)
(* Selectors: the keys of the handler table returned by create().          *)
(***************************************************************************)
Handlers ==
    <<"TSTypeReference", "LetVarNoInit", "LetVarInit", "IdentifierId", "EmptyArrayInit",
      "ObjectPatternId", "ArrayPatternId", "ForOfDeclarator", "ReturnStatementArgument",
      "ArrowFunctionBody", "CallExpression", "AssignmentExpression", "UpdateExpression",
      "BooleanTest", "SwitchStatement", "SwitchCaseTest">>

\* Variant: the call handler is registered as CallExpression:exit.
HandlerPhaseCallOnExit(h) == IF h = "CallExpression" THEN "exit" ELSE "enter"

\* No selector of the table ends in :exit, so every handler fires on entry.
HandlerPhase(h) == "enter"

\* The type of the k-th ancestor of the node at p ("" when there is none).
AncestorType(root, p, k) ==
    IF Len(p) < k THEN "" ELSE NodeAt(root, SubSeq(p, 1, Len(p) - k)).type

Ancestor(root, p, k) == NodeAt(root, SubSeq(p, 1, Len(p) - k))

\* The position of the node at p among the children of its parent.
Index(p) == p[Len(p)]

\* VariableDeclaration > VariableDeclarator[init] > <type>.id
IsDeclaratorId(root, p, type) ==
    /\ NodeAt(root, p).type = type
    /\ AncestorType(root, p, 1) = "VariableDeclarator"
    /\ AncestorType(root, p, 2) = "VariableDeclaration"
    /\ HasInit(Ancestor(root, p, 1))
    /\ Index(p) = 1

\* VariableDeclaration:matches([kind = "let"], [kind = "var"]) > VariableDeclarator
IsLetVarDeclarator(root, p) ==
    /\ NodeAt(root, p).type = "VariableDeclarator"
    /\ AncestorType(root, p, 1) = "VariableDeclaration"
    /\ Ancestor(root, p, 1).kind \in {"let", "var"}

Selector(h, root, p) ==
    LET node == NodeAt(root, p) IN
    CASE h = "TSTypeReference" -> node.type = "TSTypeReference"
      [] h = "LetVarNoInit" -> IsLetVarDeclarator(root, p) /\ ~HasInit(node)
      [] h = "LetVarInit" -> IsLetVarDeclarator(root, p) /\ HasInit(node)
      [] h = "IdentifierId" -> IsDeclaratorId(root, p, "Identifier")
      [] h = "EmptyArrayInit" ->
            /\ node.type = "ArrayExpression"
            /\ Len(node.children) = 0
            /\ AncestorType(root, p, 1) = "VariableDeclarator"
            /\ AncestorType(root, p, 2) = "VariableDeclaration"
            /\ Index(p) = 2
      [] h = "ObjectPatternId" -> IsDeclaratorId(root, p, "ObjectPattern")
      [] h = "ArrayPatternId" -> IsDeclaratorId(root, p, "ArrayPattern")
      [] h = "ForOfDeclarator" ->
            /\ node.type = "VariableDeclarator"
            /\ AncestorType(root, p, 1) = "VariableDeclaration"
            /\ AncestorType(root, p, 2) = "ForOfStatement"
            /\ Index(ParentPath(p)) = 1
      [] h = "ReturnStatementArgument" ->
            node.type = "ReturnStatement" /\ Len(node.children) > 0
      \* :not(TSESTree.BlockStatement) excludes only nodes of type "TSESTree",
      \* which do not exist: every arrow function body matches.
      [] h = "ArrowFunctionBody" ->
            /\ AncestorType(root, p, 1) = "ArrowFunctionExpression"
            /\ Index(p) = Len(Ancestor(root, p, 1).children)
            /\ ~(node.type = "TSESTree")
      [] h = "CallExpression" -> node.type = "CallExpression" /\ Len(node.children) - 1 > 0
      [] h = "AssignmentExpression" -> node.type = "AssignmentExpression"
      [] h = "UpdateExpression" -> node.type = "UpdateExpression"
      [] h = "BooleanTest" ->
            node.type \in {"IfStatement", "WhileStatement", "DoWhileStatement",
                           "ConditionalExpression"}
      [] h = "SwitchStatement" -> node.type = "SwitchStatement"
      [] h = "SwitchCaseTest" -> node.type = "SwitchCase" /\ Len(node.children) > 0

(***************************************************************************)
(* Traversal: a depth-first walk that enters a node, walks its children in *)
(* order (null children are skipped) and leaves it; at each event it fires *)
(* the handlers registered for that phase whose selector matches.          *)
(***************************************************************************)
RECURSIVE Events(_, _)
RECURSIVE EventsOfKids(_, _, _)
Events(n, p) ==
    <<[path |-> p, phase |-> "enter"]>> \o EventsOfKids(n, p, 1)
        \o <<[path |-> p, phase |-> "exit"]>>

EventsOfKids(n, p, i) ==
    IF i > Len(Kids(n)) THEN <<>>
    ELSE IF Kids(n)[i].type = "null" THEN EventsOfKids(n, p, i + 1)
    ELSE Events(Kids(n)[i], Append(p, i)) \o EventsOfKids(n, p, i + 1)

RECURSIVE HandlersAt(_, _, _)
HandlersAt(root, e, i) ==
    IF i > Len(Handlers) THEN <<>>
    ELSE IF HandlerPhase(Handlers[i]) = e.phase /\ Selector(Handlers[i], root, e.path)
    THEN <<[path |-> e.path, handler |-> Handlers[i]]>> \o HandlersAt(root, e, i + 1)
    ELSE HandlersAt(root, e, i + 1)

RECURSIVE WorklistFrom(_, _, _)
WorklistFrom(root, events, i) ==
    IF i > Len(events) THEN <<>>
    ELSE HandlersAt(root, events[i], 1) \o WorklistFrom(root, events, i + 1)

Worklist(root) == WorklistFrom(root, Events(root, <<>>), 1)

(***************************************************************************)
(* The programs of the model: one top-level statement of each construct    *)
(* the rule has a handler for, with every resolved type at the positions   *)
(* the handlers query.                                                     *)
(***************************************************************************)
SeqsUpTo(S, n) == UNION {[1..k -> S] : k \in 1..n}

Resolved == {"Concrete", "Dynamic", "DynamicArray"}

Leaf(type, name, ty) == Node(type, "", name, ty, <<>>, <<>>)
Ident(name, ty) == Leaf("Identifier", name, ty)
Values == {Ident("v", ty) : ty \in Resolved}

Call(args, ty) == Node("CallExpression", "", "", ty, <<>>, <<Ident("f", "Concrete")>> \o args)
InnerCalls == {Call(<<a>>, ty) : a \in Values, ty \in {"Concrete", "Dynamic"}}
Calls == {Call(args, "Concrete") : args \in SeqsUpTo(Values \cup InnerCalls, MaxArgs)}
             \cup {Call(<<>>, "Dynamic")}

EmptyArray(ty) == Leaf("ArrayExpression", "", ty)
Inits ==
    Values
      \cup {Leaf("Literal", "null", ty) : ty \in {"Concrete", "Dynamic"}}
      \cup {Ident("undefined", ty) : ty \in {"Concrete", "Dynamic"}}
      \cup {EmptyArray(ty) : ty \in {"ConcreteArray", "DynamicArray", "Dynamic"}}
      \cup {Node("ArrayExpression", "", "", ty, <<>>, <<Ident("v", "Concrete")>>) :
              ty \in {"ConcreteArray", "DynamicArray"}}

TypeAnnotation(t) == <<Node("TSTypeAnnotation", "", "", "Concrete", <<>>, <<t>>)>>
Annotations ==
    {<<>>}
      \cup {TypeAnnotation(Leaf(k, "", "Concrete")) : k \in {"TSUnknownKeyword", "TSNumberKeyword"}}
      \cup {TypeAnnotation(Leaf("TSTypeReference", "T", ty)) : ty \in {"Concrete", "Dynamic"}}
FewAnnotations ==
    {<<>>} \cup {TypeAnnotation(Leaf(k, "", "Concrete")) : k \in {"TSUnknownKeyword", "TSNumberKeyword"}}

Binding(ann) == Node("Identifier", "", "x", "Concrete", ann, <<>>)
Declarator(id, init, ty) == Node("VariableDeclarator", "", "", ty, <<>>, <<id>> \o init)
Declaration(kind, decls) == Node("VariableDeclaration", kind, "", "Concrete", <<>>, decls)
Kinds == {"const", "let", "var"}

IdentifierDeclarations ==
    {Declaration(k, <<Declarator(Binding(a), <<i>>, "Concrete")>>) :
        k \in Kinds, a \in Annotations, i \in Inits}
      \cup {Declaration(k, <<Declarator(Binding(a), <<>>, "Concrete")>>) :
              k \in {"let", "var"}, a \in Annotations}

FewDeclarators ==
    {Declarator(Binding(<<>>), <<>>, "Concrete"),
     Declarator(Binding(<<>>), <<Ident("v", "Dynamic")>>, "Concrete"),
     Declarator(Binding(TypeAnnotation(Leaf("TSNumberKeyword", "", "Concrete"))),
                <<Ident("v", "Dynamic")>>, "Concrete"),
     Declarator(Binding(<<>>), <<EmptyArray("ConcreteArray")>>, "Concrete")}
PairDeclarations ==
    {Declaration(k, <<d1, d2>>) : k \in {"let", "var"}, d1 \in FewDeclarators, d2 \in FewDeclarators}

\* Destructuring patterns.
Hole == Null
Rest(ty) == Node("RestElement", "", "", ty, <<>>, <<Ident("r", ty)>>)
Default(ty) == Node("AssignmentPattern", "", "", ty, <<>>, <<Ident("a", ty), Ident("v", "Concrete")>>)
Property(value) == Node("Property", "", "", "Concrete", <<>>, <<Ident("k", "Concrete"), value>>)
ArrayPattern(ann, elements) == Node("ArrayPattern", "", "", "Concrete", ann, elements)
ObjectPattern(ann, properties) == Node("ObjectPattern", "", "", "Concrete", ann, properties)

RestIsLast(s) == \A i \in 1..(Len(s) - 1) : s[i].type # "RestElement"

Leaves == {Ident("a", ty) : ty \in Resolved} \cup {Default("Dynamic")}
InnerPatterns ==
    {ArrayPattern(<<>>, <<e>>) : e \in {Ident("a", "Concrete"), Ident("a", "Dynamic"), Hole}}
      \cup {ObjectPattern(<<>>, <<Property(e)>>) : e \in {Ident("a", "Concrete"), Ident("a", "Dynamic")}}
Elements == Leaves \cup InnerPatterns \cup {Hole, Rest("Dynamic")}
Properties == {Property(v) : v \in Leaves \cup InnerPatterns} \cup {Rest("Dynamic")}

ArrayPatterns(ann) ==
    {ArrayPattern(ann, es) : es \in {s \in SeqsUpTo(Elements, MaxElems) : RestIsLast(s)}}
ObjectPatterns(ann) ==
    {ObjectPattern(ann, ps) : ps \in {s \in SeqsUpTo(Properties, MaxElems) : RestIsLast(s)}}

FewPatterns(ann) ==
    {ArrayPattern(ann, <<Ident("a", "Dynamic")>>),
     ArrayPattern(ann, <<Hole, Ident("a", "Dynamic")>>),
     ObjectPattern(ann, <<Property(Ident("a", "Dynamic"))>>),
     ObjectPattern(ann, <<Property(Ident("a", "Concrete")), Rest("Dynamic")>>)}

PatternDeclarations ==
    {Declaration("const", <<Declarator(pat, <<Ident("v", "Concrete")>>, "Concrete")>>) :
        pat \in ArrayPatterns(<<>>) \cup ObjectPatterns(<<>>)}
      \cup UNION {{Declaration(k, <<Declarator(pat, <<i>>, "Concrete")>>) :
                     k \in Kinds, pat \in FewPatterns(a),
                     i \in Values \cup {EmptyArray("DynamicArray")}} : a \in FewAnnotations}

Block(ty, body) == Node("BlockStatement", "", "", ty, <<>>, body)

ForOfStatements ==
    {Node("ForOfStatement", "", "", "Concrete", <<>>,
          <<Declaration(k, <<Declarator(id, <<>>, ty)>>), Ident("v", "DynamicArray"),
            Block("Concrete", <<>>)>>) :
        k \in Kinds, ty \in Resolved,
        id \in {Binding(a) : a \in FewAnnotations} \cup FewPatterns(<<>>)}

Statement(e) == Node("ExpressionStatement", "", "", "Concrete", <<>>, <<e>>)
Return(arg) == Node("ReturnStatement", "", "", "Concrete", <<>>, arg)
Returns1 == {Return(<<v>>) : v \in Values} \cup {Return(<<>>)}

Arrows ==
    {Node("ArrowFunctionExpression", "", "", "Concrete", <<>>, <<b>>) :
        b \in Values \cup {Block(ty, <<r>>) : ty \in {"Concrete", "Dynamic"}, r \in Returns1}}

Assignments ==
    {Node("AssignmentExpression", "", "", "Concrete", <<>>, <<Ident("x", "Concrete"), r>>) :
        r \in Values \cup InnerCalls}
Updates ==
    {Node("UpdateExpression", "", "", "Concrete", <<>>, <<v>>) : v \in Values}

SimpleStatements ==
    {Statement(Node("AssignmentExpression", "", "", "Concrete", <<>>,
                    <<Ident("x", "Concrete"), Ident("v", "Dynamic")>>)),
     Statement(Node("UpdateExpression", "", "", "Concrete", <<>>, <<Ident("v", "Dynamic")>>)),
     Statement(Call(<<Ident("v", "Dynamic"), Ident("v", "Concrete")>>, "Concrete")),
     Declaration("let", <<Declarator(Binding(<<>>), <<>>, "Concrete")>>),
     Declaration("const", <<Declarator(Binding(<<>>), <<Ident("v", "Dynamic")>>, "Concrete")>>),
     Return(<<Ident("v", "DynamicArray")>>)}
Blocks == {Block("Concrete", <<>>)} \cup {Block("Concrete", b) : b \in SeqsUpTo(SimpleStatements, MaxBody)}

Tests == Values \cup {Call(<<Ident("v", "Dynamic")>>, "Dynamic")}
BooleanTests ==
    {Node("IfStatement", "", "", "Concrete", <<>>, <<t, b>>) : t \in Tests, b \in Blocks}
      \cup {Node("WhileStatement", "", "", "Concrete", <<>>, <<t, Block("Concrete", <<>>)>>) : t \in Tests}
      \cup {Node("DoWhileStatement", "", "", "Concrete", <<>>, <<Block("Concrete", <<>>), t>>) : t \in Tests}
      \cup {Statement(Node("ConditionalExpression", "", "", "Concrete", <<>>,
                           <<t, Ident("v", "Concrete"), Ident("v", "Concrete")>>)) : t \in Tests}

SwitchCases == {Node("SwitchCase", "", "", "Concrete", <<>>, <<v>>) : v \in Values}
                 \cup {Node("SwitchCase", "", "", "Concrete", <<>>, <<>>)}
Switches ==
    {Node("SwitchStatement", "", "", "Concrete", <<>>, <<d>> \o cs) :
        d \in Values, cs \in SeqsUpTo(SwitchCases, MaxCases)}

Statements ==
    IdentifierDeclarations \cup PairDeclarations \cup PatternDeclarations
      \cup ForOfStatements \cup Returns1 \cup BooleanTests \cup Switches
      \cup {Statement(e) : e \in Calls \cup Arrows \cup Assignments \cup Updates}

Programs == {Node("Program", "", "", "Concrete", <<>>, <<s>>) : s \in Statements}

UserOptions == {"unset", "true", "false"}

(***************************************************************************)
(* The traversal as a state machine: one step fires one handler.           *)
(***************************************************************************)
Init ==
    /\ program \in Programs
    /\ userOption \in UserOptions
    /\ worklist = Worklist(program)
    /\ pc = 1
    /\ diagnostics = <<>>
    /\ firedAt = <<>>
    /\ status = "running"

Current(h) == status = "running" /\ pc <= Len(worklist) /\ worklist[pc].handler = h

\* The handler's reports are appended; a throw aborts the traversal.
Fire(result) ==
    /\ diagnostics' = diagnostics \o result.reports
    /\ firedAt' = firedAt \o [i \in 1..Len(result.reports) |-> worklist[pc].path]
    /\ pc' = pc + 1
    /\ status' = IF result.threw THEN "threw" ELSE status
    /\ UNCHANGED <<program, userOption, worklist>>

FireTSTypeReference ==
    Current("TSTypeReference") /\ Fire(TSTypeReference(program, worklist[pc].path))
FireLetVarNoInit ==
    Current("LetVarNoInit") /\ Fire(LetVarNoInit(program, worklist[pc].path))
FireLetVarInit ==
    Current("LetVarInit") /\ Fire(LetVarInit(program, worklist[pc].path))
FireIdentifierId ==
    Current("IdentifierId") /\ Fire(IdentifierId(program, worklist[pc].path))
FireEmptyArrayInit ==
    Current("EmptyArrayInit") /\ Fire(EmptyArrayInit(program, worklist[pc].path))
FireObjectPatternId ==
    Current("ObjectPatternId") /\ Fire(ObjectPatternId(program, worklist[pc].path))
FireArrayPatternId ==
    Current("ArrayPatternId") /\ Fire(ArrayPatternId(program, worklist[pc].path))
FireForOfDeclarator ==
    Current("ForOfDeclarator") /\ Fire(ForOfDeclarator(program, worklist[pc].path))
FireReturnStatementArgument ==
    Current("ReturnStatementArgument") /\ Fire(ReturnStatementArgument(program, worklist[pc].path))
FireArrowFunctionBody ==
    Current("ArrowFunctionBody") /\ Fire(ArrowFunctionBody(program, worklist[pc].path))
FireCallExpression ==
    Current("CallExpression") /\ Fire(CallExpression(program, worklist[pc].path))
FireAssignmentExpression ==
    Current("AssignmentExpression") /\ Fire(AssignmentExpression(program, worklist[pc].path))
FireUpdateExpression ==
    Current("UpdateExpression") /\ Fire(UpdateExpression(program, worklist[pc].path))
FireBooleanTest ==
    Current("BooleanTest") /\ Fire(BooleanTest(program, worklist[pc].path))
FireSwitchStatement ==
    Current("SwitchStatement") /\ Fire(SwitchStatement(program, worklist[pc].path))
FireSwitchCaseTest ==
    Current("SwitchCaseTest") /\ Fire(SwitchCaseTest(program, worklist[pc].path))

\* The walk has left the root: the diagnostics are handed to the host.
Finish ==
    /\ status = "running"
    /\ pc > Len(worklist)
    /\ status' = "done"
    /\ UNCHANGED <<program, userOption, worklist, pc, diagnostics, firedAt>>

Next ==
    \/ FireTSTypeReference
    \/ FireLetVarNoInit
    \/ FireLetVarInit
    \/ FireIdentifierId
    \/ FireEmptyArrayInit
    \/ FireObjectPatternId
    \/ FireArrayPatternId
    \/ FireForOfDeclarator
    \/ FireReturnStatementArgument
    \/ FireArrowFunctionBody
    \/ FireCallExpression
    \/ FireAssignmentExpression
    \/ FireUpdateExpression
    \/ FireBooleanTest
    \/ FireSwitchStatement
    \/ FireSwitchCaseTest
    \/ Finish

Spec == Init /\ [][Next]_vars

(***************************************************************************)
(* Vocabulary of the properties.                                           *)
(***************************************************************************)
AllPaths == PathsFrom(program, <<>>)
At(p) == NodeAt(program, p)
Declarators == {p \in AllPaths : At(p).type = "VariableDeclarator"}
Dynamic(n) == n.ty \in {"Dynamic", "DynamicArray"}

\* Every handler firing at the node at p or below it has been invoked.
Processed(p) == \A i \in 1..Len(worklist) : IsPrefix(p, worklist[i].path) => i < pc

\* The diagnostics anchored at p, and how many of them carry a message.
DiagnosticsAt(p) == SelectSeq(diagnostics, LAMBDA r : r.node = p)
MessagesAt(p) == [i \in 1..Len(DiagnosticsAt(p)) |-> DiagnosticsAt(p)[i].messageId]
Count(p, messageId) ==
    Cardinality({i \in 1..Len(diagnostics) :
                   diagnostics[i].node = p /\ diagnostics[i].messageId = messageId})

AnnotatedDynamicInit(d) ==
    /\ HasInit(At(d))
    /\ HasTypeAnnotation(IdOf(At(d)))
    /\ Dynamic(InitOf(At(d)))

UnannotatedDynamicInit(d) ==
    /\ HasInit(At(d))
    /\ ~HasTypeAnnotation(IdOf(At(d)))
    /\ Dynamic(InitOf(At(d)))

(***************************************************************************)
(* C1.  An annotated declarator whose initializer resolves to Dynamic or   *)
(* DynamicArray gets no diagnostic when the option is true, exactly one    *)
(* variableDeclarationInitialisedToAnyWithAnnotation when the option is    *)
(* false or not given and the annotation is not unknown, and no diagnostic *)
(* when the annotation is unknown.                                         *)
(***************************************************************************)
C1_AnnotatedDynamicInit ==
    \A d \in Declarators :
        (Processed(d) /\ AnnotatedDynamicInit(d)) =>
            MessagesAt(d) =
                IF userOption = "true" THEN <<>>
                ELSE IF WrittenType(IdOf(At(d))).type = "TSUnknownKeyword" THEN <<>>
                ELSE <<"variableDeclarationInitialisedToAnyWithAnnotation">>

C1_Witness ==
    \E d \in Declarators :
        /\ Processed(d) /\ AnnotatedDynamicInit(d)
        /\ userOption = "unset"
        /\ WrittenType(IdOf(At(d))).type = "TSNumberKeyword"
        /\ MessagesAt(d) = <<"variableDeclarationInitialisedToAnyWithAnnotation">>
        /\ status = "done"

(***************************************************************************)
(* C2.  A declarator without annotation whose initializer resolves to      *)
(* Dynamic or DynamicArray gets exactly one                                *)
(* variableDeclarationInitialisedToAnyWithoutAnnotation, whatever the      *)
(* declaration kind, the shape of the initializer and the option.          *)
(***************************************************************************)
C2_UnannotatedDynamicInit ==
    \A d \in Declarators :
        (Processed(d) /\ UnannotatedDynamicInit(d)) =>
            Count(d, "variableDeclarationInitialisedToAnyWithoutAnnotation") = 1

(***************************************************************************)
(* C3.  A destructuring declarator with an initializer: when the           *)
(* initializer resolves to Dynamic or DynamicArray the declaration is      *)
(* reported as the declaration-with-initializer policy decides and no leaf *)
(* is reported; otherwise each leaf binding whose own type is Dynamic or   *)
(* DynamicArray gets exactly one patternVariableDeclarationInitialisedToAny *)
(* anchored at it, and the other leaves none.                              *)
(***************************************************************************)
RECURSIVE LeafBindings(_)
LeafBindings(p) ==
    IF At(p).type \in {"ObjectPattern", "ArrayPattern"}
    THEN UNION {LeafBindings(Append(p, i)) :
                  i \in {j \in 1..Len(At(p).children) : At(p).children[j].type # "null"}}
    ELSE IF At(p).type = "Property" THEN LeafBindings(Append(p, 2))
    ELSE {p}

PatternDeclarators ==
    {d \in Declarators : HasInit(At(d)) /\ IdOf(At(d)).type \in {"ObjectPattern", "ArrayPattern"}}

DeclarationPolicyCount(d) ==
    IF ~HasTypeAnnotation(IdOf(At(d))) THEN 1
    ELSE IF allowVariableAnnotationFromAny THEN 0
    ELSE IF WrittenType(IdOf(At(d))).type = "TSUnknownKeyword" THEN 0
    ELSE 1

C3_DestructuredLeaves ==
    \A d \in PatternDeclarators :
        Processed(d) =>
            IF Dynamic(InitOf(At(d)))
            THEN /\ Len(DiagnosticsAt(d)) = DeclarationPolicyCount(d)
                 /\ \A l \in LeafBindings(Append(d, 1)) :
                        Count(l, "patternVariableDeclarationInitialisedToAny") = 0
            ELSE \A l \in LeafBindings(Append(d, 1)) :
                    Count(l, "patternVariableDeclarationInitialisedToAny") =
                        IF Dynamic(At(l)) THEN 1 ELSE 0

(***************************************************************************)
(* C4.  A call with at least one argument: the passedArgumentIsAny         *)
(* diagnostics anchored at its arguments are exactly its arguments that    *)
(* resolve to Dynamic or DynamicArray, each once, in argument order.       *)
(***************************************************************************)
CallsWithArguments ==
    {p \in AllPaths : At(p).type = "CallExpression" /\ Len(At(p).children) > 1}

ArgumentPaths(c) == [i \in 1..(Len(At(c).children) - 1) |-> Append(c, i + 1)]

PassedArgumentAnchors(c) ==
    LET ds == SelectSeq(diagnostics,
                        LAMBDA r : /\ r.messageId = "passedArgumentIsAny"
                                   /\ Len(r.node) = Len(c) + 1
                                   /\ IsPrefix(c, r.node))
    IN [i \in 1..Len(ds) |-> ds[i].node]

C4_CallArguments ==
    \A c \in CallsWithArguments :
        Processed(c) =>
            PassedArgumentAnchors(c) = SelectSeq(ArgumentPaths(c), LAMBDA a : Dynamic(At(a)))

C4_Witness ==
    \E c \in CallsWithArguments :
        /\ Processed(c)
        /\ Len(At(c).children) = 3
        /\ Dynamic(At(c).children[2])
        /\ ~Dynamic(At(c).children[3])
        /\ Len(PassedArgumentAnchors(c)) = 1

(***************************************************************************)
(* C5.  A declarator of a let or var declaration with neither initializer  *)
(* nor annotation gets exactly one letVariableWithNoInitialAndNoAnnotation *)
(* whose kind is the declaration's keyword; any other declarator gets      *)
(* none.                                                                   *)
(***************************************************************************)
NoInitDiagnostics(d) ==
    SelectSeq(diagnostics,
              LAMBDA r : r.node = d /\ r.messageId = "letVariableWithNoInitialAndNoAnnotation")

C5_LetVarNoInit ==
    \A d \in Declarators :
        Processed(d) =>
            IF /\ At(ParentPath(d)).kind \in {"let", "var"}
               /\ ~HasInit(At(d))
               /\ ~HasTypeAnnotation(IdOf(At(d)))
            THEN /\ Len(NoInitDiagnostics(d)) = 1
                 /\ NoInitDiagnostics(d)[1].data = {<<"kind", At(ParentPath(d)).kind>>}
            ELSE Len(NoInitDiagnostics(d)) = 0

C5_Witness ==
    \E d \in Declarators :
        /\ Processed(d)
        /\ At(ParentPath(d)).kind = "var"
        /\ ~HasInit(At(d))
        /\ ~HasTypeAnnotation(IdOf(At(d)))
        /\ Len(NoInitDiagnostics(d)) = 1
        /\ status = "done"

(***************************************************************************)
(* C6.  A declarator whose initializer is an empty array literal: without  *)
(* annotation, variableDeclarationInitialisedToAnyWithoutAnnotation is     *)
(* emitted anchored at the declarator for every option and every resolved  *)
(* type of the literal (exactly once when the literal does not resolve to  *)
(* Dynamic or DynamicArray); with an annotation, none is emitted.          *)
(***************************************************************************)
EmptyArrayDeclarators ==
    {d \in Declarators :
        /\ HasInit(At(d))
        /\ InitOf(At(d)).type = "ArrayExpression"
        /\ Len(InitOf(At(d)).children) = 0}

C6_EmptyArrayLiteral ==
    \A d \in EmptyArrayDeclarators :
        Processed(d) =>
            LET n == Count(d, "variableDeclarationInitialisedToAnyWithoutAnnotation") IN
            IF HasTypeAnnotation(IdOf(At(d))) THEN n = 0
            ELSE n >= 1 /\ (~Dynamic(InitOf(At(d))) => n = 1)

C6_Witness ==
    \E d \in EmptyArrayDeclarators :
        /\ Processed(d)
        /\ ~HasTypeAnnotation(IdOf(At(d)))
        /\ InitOf(At(d)).ty = "ConcreteArray"
        /\ userOption = "true"
        /\ MessagesAt(d) = <<"variableDeclarationInitialisedToAnyWithoutAnnotation">>

(***************************************************************************)
(* C7.  Every emitted diagnostic has one of the 14 message identifiers and *)
(* carries exactly the data its message interpolates, each with a defined  *)
(* value.                                                                  *)
(***************************************************************************)
MessageIds ==
    {"typeReferenceResolvesToAny",
     "variableDeclarationInitialisedToAnyWithoutAnnotation",
     "variableDeclarationInitialisedToAnyWithAnnotation",
     "patternVariableDeclarationInitialisedToAny",
     "letVariableInitialisedToNullishAndNoAnnotation",
     "letVariableWithNoInitialAndNoAnnotation",
     "loopVariableInitialisedToAny",
     "returnAny",
     "passedArgumentIsAny",
     "assignmentValueIsAny",
     "updateExpressionIsAny",
     "booleanTestIsAny",
     "switchDiscriminantIsAny",
     "switchCaseTestIsAny"}

\* The placeholders of the message templates and the values they may take.
RequiredData(messageId) ==
    CASE messageId = "typeReferenceResolvesToAny" -> {"typeName"}
      [] messageId \in {"letVariableInitialisedToNullishAndNoAnnotation",
                        "letVariableWithNoInitialAndNoAnnotation",
                        "booleanTestIsAny"} -> {"kind"}
      [] OTHER -> {}

DefinedValue(messageId, value) ==
    CASE messageId = "booleanTestIsAny" -> value \in {"if", "while", "do while", "ternary"}
      [] messageId \in {"letVariableInitialisedToNullishAndNoAnnotation",
                        "letVariableWithNoInitialAndNoAnnotation"} -> value \in {"let", "var"}
      [] OTHER -> value \notin {"", "undefined"}

C7_DiagnosticShape ==
    \A i \in 1..Len(diagnostics) :
        LET r == diagnostics[i] IN
        /\ r.messageId \in MessageIds
        /\ {kv[1] : kv \in r.data} = RequiredData(r.messageId)
        /\ Cardinality(r.data) = Cardinality(RequiredData(r.messageId))
        /\ \A kv \in r.data : DefinedValue(r.messageId, kv[2])

C7_Witness ==
    \E i \in 1..Len(diagnostics) :
        /\ diagnostics[i].messageId = "booleanTestIsAny"
        /\ diagnostics[i].data = {<<"kind", "do while">>}

(***************************************************************************)
(* C8.  The loop-variable declarator of a for-of loop gets exactly one     *)
(* diagnostic, loopVariableInitialisedToAny, when it resolves to Dynamic   *)
(* or DynamicArray, and none when it resolves to Concrete, for every       *)
(* declaration kind.                                                       *)
(***************************************************************************)
ForOfDeclarators ==
    {d \in Declarators : Len(d) >= 2 /\ At(SubSeq(d, 1, Len(d) - 2)).type = "ForOfStatement"}

C8_ForOfLoopVariable ==
    \A d \in ForOfDeclarators :
        Processed(d) =>
            MessagesAt(d) =
                IF Dynamic(At(d)) THEN <<"loopVariableInitialisedToAny">> ELSE <<>>

(***************************************************************************)
(* C9.  The diagnostics appear in the order their handlers fire in one     *)
(* pre-order walk: a diagnostic made at a node precedes those made at its  *)
(* descendants and at later siblings' subtrees, and the sequence only ever *)
(* grows at its end.                                                       *)
(***************************************************************************)
FiringOrder ==
    /\ Len(firedAt) = Len(diagnostics)
    /\ \A i \in 1..Len(firedAt) : \A j \in i..Len(firedAt) :
           PreOrderLeq(firedAt[i], firedAt[j])

AppendOnly ==
    /\ Len(diagnostics) <= Len(diagnostics')
    /\ SubSeq(diagnostics', 1, Len(diagnostics)) = diagnostics

C9_FiringOrder == [](FiringOrder) /\ [][AppendOnly]_vars

C9_Witness ==
    \E i \in 1..Len(firedAt) : \E j \in 1..Len(firedAt) :
        /\ i < j
        /\ firedAt[i] # firedAt[j]
        /\ IsPrefix(firedAt[i], firedAt[j])
        /\ \E k \in 1..Len(firedAt) :
              k > j /\ ~IsPrefix(firedAt[j], firedAt[k]) /\ ~IsPrefix(firedAt[k], firedAt[j])

(***************************************************************************)
(* C10.  The traversal of a well-formed tree never raises.                 *)
(***************************************************************************)
C10_NeverThrows == status # "threw"

====
